---- MODULE Spec2Model ----
(***************************************************************************)
(* Model of the pistache TCP transport (src/src/common/transport.cc), the  *)
(* eventfd notifier (src/src/common/os.cc) and the REST router             *)
(* (src/src/server/router.cc).                                             *)
(*                                                                         *)
(* The reactor thread runs Transport::onReady; one action below is one     *)
(* iteration of its for-loop over the ready events (one handler, run to    *)
(* its end), or one call a handler makes into the transport from the       *)
(* reactor thread.  System calls whose result the program cannot control   *)
(* (send, recv, read, getrusage) are nondeterministic choices.             *)
(***************************************************************************)
EXTENDS Integers, Sequences, FiniteSets, TLC

(* ------------------------------ bounds -------------------------------- *)
\* number of peer descriptors the kernel hands out
NumFds == 1
\* number of connections accepted over a run
MaxPeers == 2
\* number of async_write submissions over a run
NumWrites == 2
\* longest payload of one async_write
MaxLen == 3
\* cap on the bytes the sockets accept over a run
MaxSent == 3
\* size of the scratch buffer of handleIncoming (Const::MaxBuffer, scaled down)
MaxBuffer == 3

\* number of timer descriptors
NumTimerFds == 1
\* number of armTimerMs calls over a run
NumTimerReqs == 2
\* number of load requests over a run
NumLoads == 1

\* number of threads that submit work to the reactor
NumProducers == 2
\* number of cross-thread submissions over a run
MaxPush == 3

\* number of bytes a connection delivers to recv over a run
MaxRecv == 4
\* number of routes registered over a run
MaxRoutes == 2
\* longest pattern or request URL, in segments
MaxSegs == 2
\* longest pattern of a route of the router with several routes, in segments
MaxRouteSegs == 1

Fds == 1..NumFds
Producers == 1..NumProducers
TimerFds == 1..NumTimerFds
\* durations (milliseconds) a timer is armed with
Durations == {0, 999, 1500}
PayloadLens == 1..MaxLen

(* --------------------------- vocabulary ------------------------------- *)
\* Polling::NotifyOn
Read == "Read"
Write == "Write"
Shutdown == "Shutdown"

\* Transport::WriteStatus
FirstTry == "FirstTry"
Retry == "Retry"

VARIABLES
    peers,      \* Transport::peers    : fd -> peer
    toWrite,    \* Transport::toWrite  : fd -> WriteEntry
    interest,   \* the poller's registrations of peer fds: fd -> set of NotifyOn
    sent,       \* per fd, the bytes the socket accepted, in order: <<write, index>>
    writes,     \* per submitted async_write: its fd, size and completion calls
    nextPeer,   \* identity of the next accepted connection
    disconnected, \* per peer, the number of handler.onDisconnection calls
    reactor,    \* "running", "hung" (a handler never returns), "fatal" (a handler threw)
    lastOps,    \* what the handler dispatched last called, in call order
    recvd,      \* per fd, the number of bytes of the connection's stream recv returned
    turn,       \* the last handler, if it was handleIncoming: its recv results and
                \* what it passed on (NoTurn otherwise)
    timers,     \* Transport::timers : timer fd -> TimerEntry
    timerfd,    \* per timer fd, the expiry timerfd_settime programmed: [sec, nsec]
    timerReg,   \* the poller's one-shot registrations of timer fds: fd -> "armed" | "fired"
    treqs,      \* per armTimerMs call: its fd, duration and completion calls
    loadRequest_, \* Transport::loadRequest_ : 0 (None) or the pending load request
    loads,      \* per load request: its completion calls
    notifierReady, \* the notifier's eventfd has an unreported readiness edge
    writesQueue, \* Transport::writesQueue : entries a foreign thread pushed
    timersQueue, \* Transport::timersQueue
    peersQueue,  \* Transport::peersQueue
    notified,   \* the queues whose eventfd has an unreported readiness edge
    producer,   \* per producer thread: the queue it enqueued on and has yet to notify, or "idle"
    draining,   \* the queue whose handle...Queue loop the reactor is in, or "poll"
    pushes,     \* number of entries enqueued so far
    processed,  \* the entries the reactor popped and finished processing
    offThread,  \* the tables (peers, toWrite, timers) a thread other than the
                \* reactor's has read or written
    routes,     \* Router::routes : method -> the routes added, in insertion order
    request,    \* the request last given to HttpHandler::onRequest, <<>> if none
    response,   \* what onRequest did with it
    matched     \* the result of the last Route::match call, <<>> if none

tvars == <<peers, toWrite, interest, sent, writes, nextPeer, disconnected, reactor, lastOps,
           recvd, turn>>
mvars == <<timers, timerfd, timerReg, treqs, loadRequest_, loads, notifierReady>>
qvars == <<writesQueue, timersQueue, peersQueue, notified, producer, draining, pushes, processed,
           offThread>>
rvars == <<routes, request, response, matched>>

(* ------------------------- std::map helpers --------------------------- *)
\* std::map::insert: keeps the existing element when the key is present
insert(m, k, v) ==
    IF k \in DOMAIN m THEN m ELSE [x \in DOMAIN m \cup {k} |-> IF x = k THEN v ELSE m[x]]

\* std::map::erase
erase(m, k) == [x \in DOMAIN m \ {k} |-> m[x]]

EmptyMap == [x \in {} |-> 0]

Op(name, id, n) == [op |-> name, id |-> id, n |-> n]

(* ----------------------------- poller --------------------------------- *)
\* Epoll::addFd (EPOLL_CTL_ADD)
registerFd(reg, fd, flags) == [x \in DOMAIN reg \cup {fd} |-> IF x = fd THEN flags ELSE reg[x]]

\* Epoll::rearmFd (EPOLL_CTL_MOD): the interest set is replaced
modifyFd(reg, fd, flags) == [reg EXCEPT ![fd] = flags]

\* close(fd): the kernel drops a closed descriptor from the epoll set
closeFd(reg, fd) == erase(reg, fd)

\* no handleIncoming turn on record
NoTurn == [fd |-> 0, from |-> 0, recvs |-> <<>>, calls |-> <<>>]

(* --------------------------- write path ------------------------------- *)
\* BufferHolder over the payload of write w: bytes off+1 .. off+size of it
BufferHolder(w, off, size) == [w |-> w, off |-> off, size |-> size]

\* BufferHolder::detach(offset): the remainder after `offset` bytes
detach(buffer, offset) ==
    BufferHolder(buffer.w, buffer.off + offset, buffer.size - offset)

\* the first n bytes of a buffer, as the socket sees them
Bytes(buffer, n) == [i \in 1..n |-> <<buffer.w, buffer.off + i>>]

\* Transport::WriteEntry; cb is "held" while the entry owns resolve/reject and
\* "moved" once they were moved out of it (transport.cc:167)
WriteEntry(buffer, cb) == [buffer |-> buffer, cb |-> cb]

\* The for(;;) of asyncWriteImpl: every way it can end, for every sequence of
\* send/sendfile results.  kind is how the loop ends, tw is totalWritten then.
\* A send of len > 0 bytes accepts 1..len bytes, would block, or fails; a send
\* of no bytes returns 0, and when that does not end the loop nothing has
\* changed for the next iteration: the loop spins.
RECURSIVE WriteLoop(_, _)
WriteLoop(size, totalWritten) ==
    LET len == size - totalWritten
        counts == IF len = 0 THEN {0} ELSE 1..len
        failures == IF len = 0 THEN {}
                    ELSE {[kind |-> "again", tw |-> totalWritten],
                          [kind |-> "error", tw |-> totalWritten]}
    IN  failures
        \cup UNION {
            IF totalWritten + bytesWritten = len
            THEN {[kind |-> "resolved", tw |-> totalWritten + bytesWritten]}
            ELSE IF bytesWritten = 0
            THEN {[kind |-> "spin", tw |-> totalWritten]}
            ELSE WriteLoop(size, totalWritten + bytesWritten)
            : bytesWritten \in counts }

\* the number of bytes all sockets accepted so far
RECURSIVE TotalSent(_, _)
TotalSent(s, fds) ==
    IF fds = {} THEN 0
    ELSE LET fd == CHOOSE x \in fds : TRUE IN Len(s[fd]) + TotalSent(s, fds \ {fd})

\* results of the write loop on fd: a closed descriptor fails with EBADF
WriteOutcomes(fd, buffer) ==
    IF fd \in DOMAIN interest
    THEN {o \in WriteLoop(buffer.size, 0) : TotalSent(sent, Fds) + o.tw <= MaxSent}
    ELSE {[kind |-> "error", tw |-> 0]}

\* invoking resolve/reject of write w; `reached` is whether the call reaches
\* the promise (always, unless the callback object was moved from)
Complete(ws, w, which, value, reached) ==
    IF ~reached THEN ws
    ELSE IF which = "resolve"
    THEN [ws EXCEPT ![w].resolves = @ + 1, ![w].value = value]
    ELSE [ws EXCEPT ![w].rejects = @ + 1]

\* the cleanUp lambda of asyncWriteImpl
cleanUp(tw, fd, status) == IF status = Retry THEN erase(tw, fd) ELSE tw

\* the tables a write touches, as one value
Tables == [toWrite |-> toWrite, interest |-> interest, sent |-> sent,
           writes |-> writes, reactor |-> reactor]

SetTables(t) ==
    /\ toWrite' = t.toWrite
    /\ interest' = t.interest
    /\ sent' = t.sent
    /\ writes' = t.writes
    /\ reactor' = t.reactor

\* Transport::asyncWriteImpl on tables t, for the loop ending as `out`
asyncWriteImpl(t, fd, buffer, cb, status, out, reached) ==
    LET accepted == [t EXCEPT !.sent =
                        [x \in DOMAIN t.sent |->
                            IF x = fd THEN t.sent[x] \o Bytes(buffer, out.tw) ELSE t.sent[x]]]
    IN CASE out.kind = "again" ->
              [accepted EXCEPT
                 !.toWrite = IF status = FirstTry
                             THEN insert(@, fd, WriteEntry(detach(buffer, out.tw), "held"))
                             ELSE [@ EXCEPT ![fd].cb = "moved"],
                 !.interest = modifyFd(@, fd, {Read, Write}),
                 !.writes = IF status = FirstTry /\ out.tw = 0 /\ fd \notin DOMAIN t.toWrite
                            THEN [@ EXCEPT ![buffer.w].parked = TRUE]
                            ELSE @]
         [] out.kind = "error" ->
              [accepted EXCEPT
                 !.toWrite = cleanUp(@, fd, status),
                 !.writes = Complete(@, buffer.w, "reject", 0, reached)]
         [] out.kind = "resolved" ->
              [accepted EXCEPT
                 !.toWrite = cleanUp(@, fd, status),
                 !.writes = Complete(@, buffer.w, "resolve", out.tw, reached)]
         [] out.kind = "spin" ->
              [accepted EXCEPT !.reactor = "hung"]

\* whether a call of a callback object reaches its promise
Reaches(cb) == IF cb = "held" THEN {TRUE} ELSE BOOLEAN

\* the record kept of an async_write: where it went, how long it is, whether
\* it was stored as a pending write on a would-block of its first send, and the
\* calls of its resolve/reject
NewWrite(fd, peer, size) ==
    [fd |-> fd, peer |-> peer, size |-> size, parked |-> FALSE,
     resolves |-> 0, rejects |-> 0, value |-> 0]

\* async_write called on the reactor thread (from a handler): FirstTry
AsyncWrite(fd, size) ==
    /\ reactor = "running"
    /\ Len(writes) < NumWrites
    /\ fd \in DOMAIN peers
    /\ LET w == Len(writes) + 1
           buffer == BufferHolder(w, 0, size)
       IN \E out \in WriteOutcomes(fd, buffer) :
            /\ SetTables(asyncWriteImpl([Tables EXCEPT !.writes = Append(@, NewWrite(fd, peers[fd], size))],
                                        fd, buffer, "held", FirstTry, out, TRUE))
            /\ lastOps' = <<>>
    /\ turn' = NoTurn
    /\ UNCHANGED <<peers, nextPeer, disconnected, recvd>>

\* the writable branch of onReady: re-arm for Read, then retry the stored write
retryWrite(t, fd, out, reached) ==
    LET write == t.toWrite[fd]
        rearmed == [t EXCEPT !.interest = modifyFd(@, fd, {Read})]
    IN asyncWriteImpl(rearmed, fd, write.buffer, write.cb, Retry, out, reached)

(* ------------------------- peers, incoming ---------------------------- *)
\* Transport::handlePeer
handlePeer(fd, p) ==
    /\ peers' = insert(peers, fd, p)
    /\ interest' = registerFd(interest, fd, {Read, Shutdown})
    /\ lastOps' = <<>>
    \* fd is a new connection: none of its stream has been read
    /\ recvd' = [recvd EXCEPT ![fd] = 0]
    /\ turn' = NoTurn

\* Transport::handleNewPeer called on the reactor thread
HandleNewPeer(fd) ==
    /\ reactor = "running"
    /\ nextPeer <= MaxPeers
    /\ fd \notin DOMAIN interest
    /\ handlePeer(fd, nextPeer)
    /\ nextPeer' = nextPeer + 1
    /\ UNCHANGED <<toWrite, sent, writes, reactor, disconnected>>

\* handlePeerDisconnection without the erase from the peers table
handlePeerDisconnection_noErase(fd, p) ==
    <<Op("onDisconnection", p, 0), Op("close", fd, 0)>>

\* Transport::handlePeerDisconnection: the calls it makes, in order
handlePeerDisconnection(fd, p) ==
    IF fd \in DOMAIN peers
    THEN <<Op("onDisconnection", p, 0), Op("erase", fd, 0), Op("close", fd, 0)>>
    ELSE <<Op("onDisconnection", p, 0), Op("throw", fd, 0)>>

\* a result of recv: the return value and, for -1, errno
Recv(ret, errno) == [ret |-> ret, errno |-> errno]

\* char buffer[Const::MaxBuffer] after the memset
ZeroBuffer == [i \in 1..MaxBuffer |-> 0]

\* recv(fd, buffer + totalBytes, ...) returning `bytes`: the next bytes of the
\* stream, of which `from + totalBytes` were read before, land in the slots
\* after the first totalBytes.  A byte is named by its position in the stream.
Received(buffer, from, totalBytes, bytes) ==
    [i \in 1..MaxBuffer |->
        IF i \in (totalBytes + 1)..(totalBytes + bytes)
        THEN from + totalBytes + (i - totalBytes)
        ELSE buffer[i]]

\* the loop of handleIncoming leaving after the first successful read, as if
\* the socket were level-triggered
RECURSIVE IncomingLoop_stopsAfterRead(_, _, _, _)
IncomingLoop_stopsAfterRead(from, totalBytes, buffer, recvs) ==
    LET ends(kind, res) == [kind |-> kind, total |-> totalBytes, buffer |-> buffer,
                            recvs |-> Append(recvs, res)]
        room == MaxBuffer - totalBytes
        left == MaxRecv - (from + totalBytes)
    IN {ends("quiet", Recv(-1, "EAGAIN")),
        ends("closed", Recv(0, "")),
        ends("reset", Recv(-1, "ECONNRESET")),
        ends("error", Recv(-1, "EIO"))}
       \cup {[kind |-> IF totalBytes + bytes >= MaxBuffer THEN "toolong" ELSE "input",
               total |-> totalBytes + bytes,
               buffer |-> Received(buffer, from, totalBytes, bytes),
               recvs |-> Append(recvs, Recv(bytes, ""))]
              : bytes \in 1..(IF room < left THEN room ELSE left)}

\* the loop of handleIncoming testing totalBytes > MaxBuffer: a buffer that is
\* exactly full is not noticed and recv is called again, with no room
RECURSIVE IncomingLoop_fullUnnoticed(_, _, _, _)
IncomingLoop_fullUnnoticed(from, totalBytes, buffer, recvs) ==
    LET ends(kind, res) == [kind |-> kind, total |-> totalBytes, buffer |-> buffer,
                            recvs |-> Append(recvs, res)]
        room == MaxBuffer - totalBytes
        left == MaxRecv - (from + totalBytes)
    IN {ends(IF totalBytes > 0 THEN "input" ELSE "quiet", Recv(-1, "EAGAIN")),
        ends("closed", Recv(0, "")),
        ends("reset", Recv(-1, "ECONNRESET")),
        ends("error", Recv(-1, "EIO"))}
       \cup UNION {
           IncomingLoop_fullUnnoticed(from, totalBytes + bytes,
                                      Received(buffer, from, totalBytes, bytes),
                                      Append(recvs, Recv(bytes, "")))
           : bytes \in 1..(IF room < left THEN room ELSE left) }

\* The for(;;) of handleIncoming: every way it can end, for every sequence of
\* recv results.  total is totalBytes when the loop ends, recvs the results of
\* the recv calls in order, buffer the scratch buffer.  recv returns at most
\* the room left, MaxBuffer - totalBytes.
RECURSIVE IncomingLoop(_, _, _, _)
IncomingLoop(from, totalBytes, buffer, recvs) ==
    LET ends(kind, res) == [kind |-> kind, total |-> totalBytes, buffer |-> buffer,
                            recvs |-> Append(recvs, res)]
        room == MaxBuffer - totalBytes
        left == MaxRecv - (from + totalBytes)
    IN {ends(IF totalBytes > 0 THEN "input" ELSE "quiet", Recv(-1, "EAGAIN")),
        ends("closed", Recv(0, "")),
        ends("reset", Recv(-1, "ECONNRESET")),
        ends("error", Recv(-1, "EIO"))}
       \cup UNION {
           IF totalBytes + bytes >= MaxBuffer
           THEN {[kind |-> "toolong", total |-> totalBytes + bytes,
                  buffer |-> Received(buffer, from, totalBytes, bytes),
                  recvs |-> Append(recvs, Recv(bytes, ""))]}
           ELSE IncomingLoop(from, totalBytes + bytes,
                             Received(buffer, from, totalBytes, bytes),
                             Append(recvs, Recv(bytes, "")))
           : bytes \in 1..(IF room < left THEN room ELSE left) }

\* a call handleIncoming makes with the scratch buffer
Call(op, buffer, len) == [op |-> op, data |-> SubSeq(buffer, 1, len)]

\* Transport::handleIncoming, for the loop ending as `out`
handleIncoming(fd, out) ==
    LET p == peers[fd]
        Turn(calls) == [fd |-> fd, from |-> recvd[fd], recvs |-> out.recvs, calls |-> calls]
    IN
    /\ recvd' = [recvd EXCEPT ![fd] = @ + out.total]
    /\ CASE out.kind = "input" ->
           /\ lastOps' = <<Op("onInput", p, out.total)>>
           /\ turn' = Turn(<<Call("onInput", out.buffer, out.total)>>)
           /\ UNCHANGED <<peers, interest, disconnected, reactor>>
      [] out.kind = "quiet" ->
           /\ lastOps' = <<>>
           /\ turn' = Turn(<<>>)
           /\ UNCHANGED <<peers, interest, disconnected, reactor>>
      [] out.kind \in {"closed", "reset"} ->
           LET ops == handlePeerDisconnection(fd, p)
               does(name) == \E i \in 1..Len(ops) : ops[i].op = name
           IN /\ lastOps' = ops
              /\ turn' = Turn(<<Call("onDisconnection", out.buffer, 0)>>)
              /\ disconnected' = [disconnected EXCEPT ![p] = @ + 1]
              /\ peers' = IF does("erase") THEN erase(peers, fd) ELSE peers
              /\ interest' = IF does("close") THEN closeFd(interest, fd) ELSE interest
              /\ reactor' = IF does("throw") THEN "fatal" ELSE reactor
      [] out.kind = "error" ->
           /\ lastOps' = <<Op("throw", fd, 0)>>
           /\ turn' = Turn(<<Call("throw", out.buffer, 0)>>)
           /\ reactor' = "fatal"
           /\ UNCHANGED <<peers, interest, disconnected>>
      [] out.kind = "toolong" ->
           /\ lastOps' = <<Op("Too long packet", p, out.total)>>
           /\ turn' = Turn(<<Call("Too long packet", out.buffer, 0)>>)
           /\ UNCHANGED <<peers, interest, disconnected, reactor>>

(* --------------------------- event dispatch --------------------------- *)
\* One iteration of the for-loop of Transport::onReady for an event on a
\* descriptor that is none of the queue or notifier tags.
OnReadyFd(fd, flags) ==
    /\ reactor = "running"
    /\ fd \in DOMAIN interest
    /\ flags # {}
    /\ flags \subseteq interest[fd] \cap {Read, Write}
    /\ IF Read \in flags
       THEN IF fd \in DOMAIN peers
            THEN /\ \E out \in IncomingLoop(recvd[fd], 0, ZeroBuffer, <<>>) :
                        handleIncoming(fd, out)
                 /\ UNCHANGED <<toWrite, sent, writes, nextPeer>>
            ELSE /\ reactor' = "fatal"
                 /\ lastOps' = <<Op("throw", fd, 0)>>
                 /\ turn' = NoTurn
                 /\ UNCHANGED <<peers, toWrite, interest, sent, writes, nextPeer, disconnected,
                                recvd>>
       ELSE IF fd \notin DOMAIN toWrite
            THEN /\ reactor' = "fatal"
                 /\ lastOps' = <<Op("throw", fd, 0)>>
                 /\ turn' = NoTurn
                 /\ UNCHANGED <<peers, toWrite, interest, sent, writes, nextPeer, disconnected,
                                recvd>>
            ELSE LET write == toWrite[fd] IN
                 \E out \in WriteOutcomes(fd, write.buffer) :
                 \E reached \in Reaches(write.cb) :
                    /\ SetTables(retryWrite(Tables, fd, out, reached))
                    /\ lastOps' = <<>>
                    /\ turn' = NoTurn
                    /\ UNCHANGED <<peers, nextPeer, disconnected, recvd>>

(* ------------------------------ timers ------------------------------- *)
\* Transport::TimerEntry of request r
TimerEntry(r, fd, value) == [req |-> r, fd |-> fd, value |-> value, active |-> TRUE]

NewTimerReq(fd, value) ==
    [fd |-> fd, value |-> value, resolves |-> 0, rejects |-> 0, error |-> "", disarmed |-> FALSE]

\* the itimerspec.it_value armTimerMsImpl computes for a duration in milliseconds
itValue(value) ==
    IF value < 1000
    THEN [sec |-> 0, nsec |-> value * 1000000]
    ELSE [sec |-> value \div 1000, nsec |-> 0]

\* entry.reject(error) of timer request r
rejectTimer(reqs, r, error) ==
    [reqs EXCEPT ![r].rejects = @ + 1, ![r].error = error]

\* entry.resolve(numWakeups) of timer request r
resolveTimer(reqs, r) == [reqs EXCEPT ![r].resolves = @ + 1]

\* the timer tables, as one value
TimerTables == [timers |-> timers, timerfd |-> timerfd, timerReg |-> timerReg, treqs |-> treqs]

SetTimerTables(t) ==
    /\ timers' = t.timers
    /\ timerfd' = t.timerfd
    /\ timerReg' = t.timerReg
    /\ treqs' = t.treqs

\* armTimerMsImpl without the lookup: a second arm replaces the entry
armTimerMsImpl_overwrite(t, entry, settimeOk) ==
    IF ~settimeOk
    THEN [t EXCEPT !.treqs = rejectTimer(@, entry.req, "Could not set timer time")]
    ELSE [t EXCEPT !.timerfd = [@ EXCEPT ![entry.fd] = itValue(entry.value)],
                   !.timerReg = [@ EXCEPT ![entry.fd] = "armed"],
                   !.timers = [x \in DOMAIN @ \cup {entry.fd} |->
                                  IF x = entry.fd THEN entry ELSE @[x]]]

\* Transport::armTimerMsImpl on tables t; settimeOk is timerfd_settime's result
armTimerMsImpl(t, entry, settimeOk) ==
    IF entry.fd \in DOMAIN t.timers
    THEN [t EXCEPT !.treqs = rejectTimer(@, entry.req, "Timer is already armed")]
    ELSE IF ~settimeOk
    THEN [t EXCEPT !.treqs = rejectTimer(@, entry.req, "Could not set timer time")]
    ELSE [t EXCEPT !.timerfd = [@ EXCEPT ![entry.fd] = itValue(entry.value)],
                   !.timerReg = [@ EXCEPT ![entry.fd] = "armed"],
                   !.timers = insert(@, entry.fd, entry)]

\* Transport::armTimerMs called on the reactor thread
ArmTimerMs(fd, value, settimeOk) ==
    /\ reactor = "running"
    /\ Len(treqs) < NumTimerReqs
    /\ LET r == Len(treqs) + 1
       IN SetTimerTables(armTimerMsImpl(
              [TimerTables EXCEPT !.treqs = Append(@, NewTimerReq(fd, value))],
              TimerEntry(r, fd, value), settimeOk))
    /\ lastOps' = <<Op("armTimerMs", fd, 0)>>
    /\ UNCHANGED <<loadRequest_, loads, notifierReady>>

\* Transport::disarmTimer
disarmTimer(t, fd) ==
    IF fd \notin DOMAIN t.timers
    THEN t
    ELSE [t EXCEPT !.timers = [@ EXCEPT ![fd].active = FALSE],
                   !.treqs = [@ EXCEPT ![t.timers[fd].req].disarmed = TRUE]]

DisarmTimer(fd) ==
    /\ reactor = "running"
    /\ SetTimerTables(disarmTimer(TimerTables, fd))
    /\ lastOps' = IF fd \in DOMAIN timers
                  THEN <<Op("disarmTimer", fd, 0)>>
                  ELSE <<Op("disarmTimer", fd, 0), Op("throw", fd, 0)>>
    /\ UNCHANGED <<loadRequest_, loads, notifierReady>>

\* handleTimer without the isActive() test
handleTimer_ignoresActive(reqs, entry, res) ==
    CASE res = "again" -> reqs
      [] res = "error" -> rejectTimer(reqs, entry.req, "Could not read timerfd")
      [] res = "short" -> rejectTimer(reqs, entry.req, "Read invalid number of bytes for timer fd")
      [] res = "ok" -> resolveTimer(reqs, entry.req)

\* Transport::handleTimer; res is the result of read(2) on the timer fd
handleTimer(reqs, entry, res) ==
    IF entry.active
    THEN CASE res = "again" -> reqs
           [] res = "error" -> rejectTimer(reqs, entry.req, "Could not read timerfd")
           [] res = "short" -> rejectTimer(reqs, entry.req, "Read invalid number of bytes for timer fd")
           [] res = "ok" -> resolveTimer(reqs, entry.req)
    ELSE reqs

ReadResults == {"ok", "again", "error", "short"}

\* the readable branch of onReady for a timer fd, with the entry left in the
\* table when the read of the timer fd would block
onReadyTimer_keepsOnAgain(t, fd, res) ==
    IF t.timers[fd].active /\ res = "again"
    THEN [t EXCEPT !.timerReg = [@ EXCEPT ![fd] = "fired"]]
    ELSE [t EXCEPT !.treqs = handleTimer(@, t.timers[fd], res),
                   !.timers = erase(@, fd),
                   !.timerReg = [@ EXCEPT ![fd] = "fired"]]

\* the readable branch of onReady for a timer fd: handleTimer, then erase
onReadyTimer(t, fd, res) ==
    [t EXCEPT !.treqs = handleTimer(@, t.timers[fd], res),
              !.timers = erase(@, fd),
              !.timerReg = [@ EXCEPT ![fd] = "fired"]]

\* a timer fd is reported readable: it is registered (one-shot, not yet
\* reported) and programmed with an expiry that can elapse
OnReadyTimer(fd, res) ==
    /\ reactor = "running"
    /\ timerReg[fd] = "armed"
    /\ timerfd[fd] # [sec |-> 0, nsec |-> 0]
    /\ res \in (IF fd \in DOMAIN timers /\ timers[fd].active THEN ReadResults ELSE {"ok"})
    /\ IF fd \in DOMAIN timers
       THEN /\ SetTimerTables(onReadyTimer(TimerTables, fd, res))
            \* handleTimer reads the timer fd only when the entry is active;
            \* the second call on record is named by the result of that read
            /\ lastOps' = IF timers[fd].active
                          THEN <<Op("handleTimer", fd, 0), Op(res, fd, 0)>>
                          ELSE <<Op("handleTimer", fd, 0)>>
            /\ reactor' = reactor
       ELSE /\ reactor' = "fatal"
            /\ lastOps' = <<Op("throw", fd, 0)>>
            /\ UNCHANGED <<timers, timerfd, timerReg, treqs>>
    /\ UNCHANGED <<loadRequest_, loads, notifierReady>>

(* ----------------------------- notifier ------------------------------- *)
\* a load request is posted: loadRequest_ is set and the notifier notified
Load ==
    /\ reactor = "running"
    /\ loadRequest_ = 0
    /\ Len(loads) < NumLoads
    /\ loads' = Append(loads, [resolves |-> 0, rejects |-> 0])
    /\ loadRequest_' = Len(loads) + 1
    /\ notifierReady' = TRUE
    /\ lastOps' = <<>>
    /\ UNCHANGED <<timers, timerfd, timerReg, treqs>>

\* Transport::handleNotify; getrusageOk is whether getrusage returned 0
handleNotify(ls, req, getrusageOk) ==
    IF req = 0 THEN ls
    ELSE LET rejected == IF getrusageOk THEN ls ELSE [ls EXCEPT ![req].rejects = @ + 1]
         IN [rejected EXCEPT ![req].resolves = @ + 1]

HandleNotify(getrusageOk) ==
    /\ reactor = "running"
    /\ notifierReady
    /\ notifierReady' = FALSE
    /\ loads' = handleNotify(loads, loadRequest_, getrusageOk)
    /\ loadRequest_' = 0
    /\ lastOps' = <<Op("handleNotify", 0, 0)>>
    /\ UNCHANGED <<timers, timerfd, timerReg, treqs>>

(* ------------------------- cross-thread queues ------------------------ *)
\* PollableQueue::push is two steps of the pushing thread: the entry is
\* linked into the queue, then the queue's eventfd is written (notify).
Enqueue(t, q) ==
    /\ producer[t] = "idle"
    /\ pushes < MaxPush
    /\ pushes' = pushes + 1
    /\ producer' = [producer EXCEPT ![t] = q]
    /\ UNCHANGED <<notified, draining, processed, offThread>>

\* NotifyFd::notify: eventfd_write; edge-triggered, every write is one
\* readiness edge, and edges not yet reported coalesce
Notify(t) ==
    /\ producer[t] # "idle"
    /\ notified' = notified \cup {producer[t]}
    /\ producer' = [producer EXCEPT ![t] = "idle"]
    /\ UNCHANGED <<writesQueue, timersQueue, peersQueue, draining, pushes, processed, offThread>>

\* Transport::handleNewPeer called off the reactor thread: peersQueue.push.
\* The acceptor got fd from accept(): a descriptor that is not open.
PushPeer(t, fd) ==
    /\ fd \notin DOMAIN interest
    /\ \A i \in 1..Len(peersQueue) : peersQueue[i].fd # fd
    /\ Enqueue(t, "peers")
    /\ peersQueue' = Append(peersQueue, [id |-> pushes + 1, fd |-> fd])
    /\ UNCHANGED <<writesQueue, timersQueue>>

\* Transport::armTimerMs called off the reactor thread: timersQueue.push
PushTimer(t, fd, value) ==
    /\ Len(treqs) < NumTimerReqs
    /\ Enqueue(t, "timers")
    /\ treqs' = Append(treqs, NewTimerReq(fd, value))
    /\ timersQueue' = Append(timersQueue,
                              [id |-> pushes + 1, entry |-> TimerEntry(Len(treqs) + 1, fd, value)])
    /\ UNCHANGED <<writesQueue, peersQueue>>

\* async_write called off the reactor thread: writesQueue.push
PushWrite(t, fd, size) ==
    /\ Len(writes) < NumWrites
    /\ Enqueue(t, "writes")
    /\ writes' = Append(writes, NewWrite(fd, IF fd \in DOMAIN peers THEN peers[fd] ELSE 0, size))
    /\ writesQueue' = Append(writesQueue,
                              [id |-> pushes + 1, peerFd |-> fd,
                               buffer |-> BufferHolder(Len(writes) + 1, 0, size)])
    /\ UNCHANGED <<timersQueue, peersQueue>>

\* Transport::disarmTimer called off the reactor thread: there is no thread
\* test in it, the calling thread looks fd up in timers and disables the entry
DisarmTimerOffThread(t, fd) ==
    /\ producer[t] = "idle"
    /\ SetTimerTables(disarmTimer(TimerTables, fd))
    /\ offThread' = offThread \cup {"timers"}
    /\ UNCHANGED <<writesQueue, timersQueue, peersQueue, notified, producer, draining,
                   pushes, processed>>

\* the branch of onReady for a queue's tag: the reactor enters the drain loop
OnReadyQueue(q) ==
    /\ reactor = "running"
    /\ draining = "poll"
    /\ q \in notified
    /\ notified' = notified \ {q}
    /\ draining' = q
    /\ UNCHANGED <<writesQueue, timersQueue, peersQueue, producer, pushes, processed, offThread>>

\* the drain loop found the queue empty: back to the poll
drained == /\ draining' = "poll"
           /\ UNCHANGED <<writesQueue, timersQueue, peersQueue, processed>>

\* one iteration of Transport::handleWriteQueue: popSafe, asyncWriteImpl
HandleWriteQueue ==
    /\ reactor = "running"
    /\ draining = "writes"
    /\ IF writesQueue = <<>>
       THEN drained /\ UNCHANGED <<toWrite, interest, sent, writes, reactor>>
       ELSE LET write == Head(writesQueue) IN
            /\ writesQueue' = Tail(writesQueue)
            /\ \E out \in WriteOutcomes(write.peerFd, write.buffer) :
                  /\ SetTables(asyncWriteImpl(Tables, write.peerFd, write.buffer,
                                              "held", FirstTry, out, TRUE))
                  /\ processed' = IF out.kind = "spin" THEN processed
                                  ELSE processed \cup {write.id}
            /\ UNCHANGED <<timersQueue, peersQueue, draining>>
    /\ lastOps' = <<>>
    /\ UNCHANGED <<notified, producer, pushes, offThread>>

\* one iteration of Transport::handleTimerQueue: popSafe, armTimerMsImpl
HandleTimerQueue ==
    /\ reactor = "running"
    /\ draining = "timers"
    /\ IF timersQueue = <<>>
       THEN drained /\ UNCHANGED <<timers, timerfd, timerReg, treqs>>
       ELSE LET timer == Head(timersQueue) IN
            /\ timersQueue' = Tail(timersQueue)
            /\ \E settimeOk \in BOOLEAN :
                  SetTimerTables(armTimerMsImpl(TimerTables, timer.entry, settimeOk))
            /\ processed' = processed \cup {timer.id}
            /\ UNCHANGED <<writesQueue, peersQueue, draining>>
    /\ lastOps' = <<>>
    /\ UNCHANGED <<notified, producer, pushes, offThread>>

\* one iteration of Transport::handlePeerQueue: popSafe, handlePeer
HandlePeerQueue ==
    /\ reactor = "running"
    /\ draining = "peers"
    /\ IF peersQueue = <<>>
       THEN drained /\ UNCHANGED <<peers, interest, nextPeer, lastOps, recvd, turn>>
       ELSE LET data == Head(peersQueue) IN
            /\ peersQueue' = Tail(peersQueue)
            /\ handlePeer(data.fd, nextPeer)
            /\ nextPeer' = nextPeer + 1
            /\ processed' = processed \cup {data.id}
            /\ UNCHANGED <<writesQueue, timersQueue, draining>>
    /\ UNCHANGED <<notified, producer, pushes, offThread>>

(* ------------------------------- router ------------------------------- *)
\* Strings are sequences of one-character strings.
Methods == {"GET", "POST"}

\* the segments route patterns are built from:  a  :x  :x?  *  *a
PatternSegments ==
    {<<"a">>, <<":", "x">>, <<":", "x", "?">>, <<"*">>, <<"*", "a">>}

\* the segments request URLs are built from:  a  b  *a  :y?
RequestSegments == {<<"a">>, <<"b">>, <<"*", "a">>, <<":", "y", "?">>}

RECURSIVE Join(_)
Join(segs) == IF segs = <<>> THEN <<>> ELSE <<"/">> \o Head(segs) \o Join(Tail(segs))

\* the URLs "/", "/s1", "/s1/s2", ... of at most max segments of a set
Urls(segments, max) ==
    {<<"/">>} \cup {Join(segs) : segs \in UNION {[1..n -> segments] : n \in 1..max}}

\* std::getline(iss, p, '/') until the stream ends: the pieces between slashes
RECURSIVE getlines(_, _)
getlines(url, p) ==
    IF url = <<>> THEN (IF p = <<>> THEN <<>> ELSE <<p>>)
    ELSE IF Head(url) = "/" THEN <<p>> \o getlines(Tail(url), <<>>)
    ELSE getlines(Tail(url), Append(p, Head(url)))

\* std::string::find('?'): the first position (from 0) of '?', or -1 (npos)
find(value) ==
    IF \E i \in 1..Len(value) : value[i] = "?"
    THEN (CHOOSE i \in 1..Len(value) :
              value[i] = "?" /\ \A j \in 1..(i - 1) : value[j] # "?") - 1
    ELSE -1

\* Route::Fragment::checkInvariant: the flag combinations that may not occur
checkInvariant(flags) ==
    ~ \/ {"Fixed", "Optional"} \subseteq flags
      \/ {"Fixed", "Parameter"} \subseteq flags
      \/ {"Splat", "Fixed"} \subseteq flags
      \/ {"Splat", "Optional"} \subseteq flags
      \/ {"Splat", "Parameter"} \subseteq flags

\* Route::Fragment::Fragment(value) and init: the fragment, or the exception
Fragment(value) ==
    LET kind == IF value[1] = ":" THEN "Parameter"
                ELSE IF value[1] = "*" THEN "Splat" ELSE "Fixed"
        pos == find(value)
        flags == {kind} \cup (IF pos # -1 THEN {"Optional"} ELSE {})
    IN IF value = <<>>
       THEN [error |-> "Invalid empty fragment", flags |-> {}, value_ |-> <<>>]
       ELSE IF value[1] = "*" /\ Len(value) > 1
       THEN [error |-> "Invalid splat parameter", flags |-> {}, value_ |-> <<>>]
       ELSE IF pos # -1 /\ value[1] # ":"
       THEN [error |-> "Only optional parameters are currently supported",
             flags |-> {}, value_ |-> <<>>]
       ELSE IF pos # -1 /\ pos # Len(value) - 1
       THEN [error |-> "? should be at the end of the string", flags |-> {}, value_ |-> <<>>]
       ELSE IF ~checkInvariant(flags)
       THEN [error |-> "Invariant violated", flags |-> {}, value_ |-> <<>>]
       ELSE [error |-> "", flags |-> flags,
             value_ |-> IF pos # -1 THEN SubSeq(value, 1, pos) ELSE value]

\* Route::Fragment::fromUrl: the fragments of the non-empty pieces, or
\* failure when the constructor of one of them throws
fromUrl(url) ==
    LET pieces == SelectSeq(getlines(url, <<>>), LAMBDA p : p # <<>>)
        frags == [i \in 1..Len(pieces) |-> Fragment(pieces[i])]
    IN [ok |-> \A i \in 1..Len(frags) : frags[i].error = "", fragments |-> frags]

isParameter(fragment) == "Parameter" \in fragment.flags
isOptional(fragment) == isParameter(fragment) /\ "Optional" \in fragment.flags
isSplat(fragment) == "Splat" \in fragment.flags

\* Route::Fragment::match(raw)
fragmentMatch(fragment, raw) ==
    IF "Fixed" \in fragment.flags THEN raw = fragment.value_
    ELSE IF isParameter(fragment) \/ isSplat(fragment) THEN TRUE
    ELSE FALSE

UNMATCH == [kind |-> "unmatch", params |-> <<>>, splats |-> <<>>]

\* the for-loop of Route::match from fragment i on
RECURSIVE matchFrom(_, _, _, _, _)
matchFrom(fragments_, reqFragments, i, params, splats) ==
    IF i > Len(fragments_)
    THEN [kind |-> "match", params |-> params, splats |-> splats]
    ELSE LET fragment == fragments_[i] IN
         IF i > Len(reqFragments)
         THEN IF isOptional(fragment)
              THEN matchFrom(fragments_, reqFragments, i + 1, params, splats)
              ELSE UNMATCH
         ELSE LET reqFragment == reqFragments[i] IN
              IF ~fragmentMatch(fragment, reqFragment.value_) THEN UNMATCH
              ELSE IF isParameter(fragment)
              THEN matchFrom(fragments_, reqFragments, i + 1,
                             Append(params, <<fragment.value_, reqFragment.value_>>), splats)
              ELSE IF isSplat(fragment)
              THEN matchFrom(fragments_, reqFragments, i + 1, params,
                             Append(splats, <<reqFragment.value_, reqFragment.value_>>))
              ELSE matchFrom(fragments_, reqFragments, i + 1, params, splats)

\* Route::match(req): a match, no match, or the exception of Fragment::fromUrl
match(route, req) ==
    LET reqFragments == fromUrl(req) IN
    IF ~reqFragments.ok THEN [kind |-> "throw", params |-> <<>>, splats |-> <<>>]
    ELSE IF Len(reqFragments.fragments) > Len(route.fragments_) THEN UNMATCH
    ELSE matchFrom(route.fragments_, reqFragments.fragments, 1, <<>>, <<>>)

\* Route::Route(resource, method, handler): the pattern compiled by fromUrl
Route(resource, handler) ==
    [fragments_ |-> fromUrl(resource).fragments, handler |-> handler]

NotFound == [invoked |-> 0, code |-> 404, body |-> "Could not find a matching route",
             threw |-> FALSE, handlerThrew |-> FALSE, params |-> <<>>, splats |-> <<>>]

\* the for-loop of HttpHandler::onRequest over the routes of the method.
\* handlerThrows: the handler the request is dispatched to throws.  Neither
\* route.match nor route.invokeHandler is inside a try block, so an exception
\* of either leaves onRequest.
RECURSIVE onRequest(_, _, _)
onRequest(r, resource, handlerThrows) ==
    IF r = <<>> THEN NotFound
    ELSE LET m == match(Head(r), resource) IN
         CASE m.kind = "throw" ->
                [invoked |-> 0, code |-> 0, body |-> "", threw |-> TRUE,
                 handlerThrew |-> FALSE, params |-> <<>>, splats |-> <<>>]
           [] m.kind = "match" ->
                [invoked |-> Head(r).handler, code |-> 0, body |-> "",
                 threw |-> handlerThrows, handlerThrew |-> handlerThrows,
                 params |-> m.params, splats |-> m.splats]
           [] m.kind = "unmatch" -> onRequest(Tail(r), resource, handlerThrows)

NumRoutes == Len(routes["GET"]) + Len(routes["POST"])

\* Router::addRoute; a pattern Fragment::fromUrl rejects throws out of it
AddRoute(method, resource) ==
    /\ NumRoutes < MaxRoutes
    /\ IF fromUrl(resource).ok
       THEN routes' = [routes EXCEPT ![method] = Append(@, Route(resource, NumRoutes + 1))]
       ELSE routes' = routes
    /\ request' = <<>>
    /\ response' = [NotFound EXCEPT !.code = 0, !.body = "",
                                     !.threw = ~fromUrl(resource).ok]
    /\ matched' = matched

\* Private::HttpHandler::onRequest
OnRequest(method, resource, handlerThrows) ==
    /\ request' = <<method, resource>>
    /\ response' = onRequest(routes[method], resource, handlerThrows)
    /\ routes' = routes
    /\ matched' = matched

\* Route::Route on a router without routes: one pattern is compiled
Compile(resource) ==
    /\ NumRoutes = 0
    /\ AddRoute("GET", resource)

\* Route::match(req) on the compiled route
Match(resource) ==
    /\ NumRoutes = 1
    /\ Len(routes["GET"]) = 1
    /\ matched' = match(routes["GET"][1], resource)
    /\ request' = <<"GET", resource>>
    /\ UNCHANGED <<routes, response>>

InitTransport ==
    /\ peers = EmptyMap
    /\ toWrite = EmptyMap
    /\ interest = EmptyMap
    /\ sent = [fd \in Fds |-> <<>>]
    /\ writes = <<>>
    /\ nextPeer = 1
    /\ disconnected = [p \in 1..MaxPeers |-> 0]
    /\ reactor = "running"
    /\ lastOps = <<>>
    /\ recvd = [fd \in Fds |-> 0]
    /\ turn = NoTurn

InitTimers ==
    /\ timers = EmptyMap
    /\ timerfd = [fd \in TimerFds |-> [sec |-> 0, nsec |-> 0]]
    /\ timerReg = [fd \in TimerFds |-> "none"]
    /\ treqs = <<>>
    /\ loadRequest_ = 0
    /\ loads = <<>>
    /\ notifierReady = FALSE

InitQueues ==
    /\ writesQueue = <<>>
    /\ timersQueue = <<>>
    /\ peersQueue = <<>>
    /\ notified = {}
    /\ producer = [t \in Producers |-> "idle"]
    /\ draining = "poll"
    /\ pushes = 0
    /\ processed = {}
    /\ offThread = {}

InitRouter ==
    /\ routes = [m \in Methods |-> <<>>]
    /\ request = <<>>
    /\ response = [NotFound EXCEPT !.code = 0, !.body = ""]
    /\ matched = <<>>

Init == InitTransport /\ InitTimers /\ InitQueues /\ InitRouter

vars == <<tvars, mvars, qvars, rvars>>

\* peers and writes, all on the reactor thread
Next ==
    \/ \E fd \in Fds : HandleNewPeer(fd) /\ UNCHANGED <<mvars, qvars, rvars>>
    \/ \E fd \in Fds, size \in PayloadLens : AsyncWrite(fd, size) /\ UNCHANGED <<mvars, qvars, rvars>>
    \/ \E fd \in Fds, flags \in SUBSET {Read, Write} :
          OnReadyFd(fd, flags) /\ UNCHANGED <<mvars, qvars, rvars>>

Spec == Init /\ [][Next]_vars

\* timers and the notifier, all on the reactor thread
TimerOther == <<peers, toWrite, interest, sent, writes, nextPeer, disconnected, recvd, turn,
                qvars, rvars>>

NextTimer ==
    \/ \E fd \in TimerFds, value \in Durations, ok \in BOOLEAN :
          ArmTimerMs(fd, value, ok) /\ UNCHANGED <<TimerOther, reactor>>
    \/ \E fd \in TimerFds : DisarmTimer(fd) /\ UNCHANGED <<TimerOther, reactor>>
    \/ \E fd \in TimerFds, res \in ReadResults : OnReadyTimer(fd, res) /\ UNCHANGED TimerOther
    \/ Load /\ UNCHANGED <<TimerOther, reactor>>
    \/ \E ok \in BOOLEAN : HandleNotify(ok) /\ UNCHANGED <<TimerOther, reactor>>

SpecTimer == Init /\ [][NextTimer]_vars

\* connections are admitted and their sockets reported readable
NextIncoming ==
    \/ \E fd \in Fds : HandleNewPeer(fd) /\ UNCHANGED <<mvars, qvars, rvars>>
    \/ \E fd \in Fds : OnReadyFd(fd, {Read}) /\ UNCHANGED <<mvars, qvars, rvars>>

SpecIncoming == Init /\ [][NextIncoming]_vars

\* producer threads pushing on the three queues, and the reactor draining them
TimerVars == <<timers, timerfd, timerReg, treqs>>
WriteVars == <<toWrite, sent, writes>>
NotifierVars == <<loadRequest_, loads, notifierReady>>

ProducerNext ==
    \/ \E t \in Producers, fd \in Fds :
          /\ PushPeer(t, fd)
          /\ UNCHANGED <<tvars, mvars, rvars>>
    \/ \E t \in Producers, fd \in TimerFds, value \in Durations :
          /\ PushTimer(t, fd, value)
          /\ UNCHANGED <<tvars, timers, timerfd, timerReg, NotifierVars, rvars>>
    \/ \E t \in Producers, fd \in Fds, size \in PayloadLens :
          /\ PushWrite(t, fd, size)
          /\ UNCHANGED <<peers, toWrite, interest, sent, nextPeer, disconnected, reactor,
                         lastOps, recvd, turn, mvars, rvars>>
    \/ \E t \in Producers : Notify(t) /\ UNCHANGED <<tvars, mvars, rvars>>
    \/ \E t \in Producers, fd \in TimerFds :
          /\ DisarmTimerOffThread(t, fd)
          /\ UNCHANGED <<tvars, NotifierVars, rvars>>

ReactorNext ==
    \/ \E q \in {"writes", "timers", "peers"} : OnReadyQueue(q) /\ UNCHANGED <<tvars, mvars, rvars>>
    \/ HandleWriteQueue /\ UNCHANGED <<peers, nextPeer, disconnected, recvd, turn, mvars, rvars>>
    \/ HandleTimerQueue /\ UNCHANGED <<peers, interest, nextPeer, disconnected, reactor,
                                         recvd, turn, WriteVars, NotifierVars, rvars>>
    \/ HandlePeerQueue /\ UNCHANGED <<disconnected, reactor, WriteVars, mvars, rvars>>

NextQueue == ProducerNext \/ ReactorNext

\* a thread that enqueued goes on to notify, and the reactor thread keeps
\* running: it polls, and a handler it is in takes its next step
SpecQueue ==
    /\ Init
    /\ [][NextQueue]_vars
    /\ WF_vars(\E t \in Producers : Notify(t) /\ UNCHANGED <<tvars, mvars, rvars>>)
    /\ WF_vars(ReactorNext)

\* routes are added, requests are dispatched
NextRouter ==
    \/ \E method \in Methods, resource \in Urls(PatternSegments, MaxRouteSegs) :
          AddRoute(method, resource) /\ UNCHANGED <<tvars, mvars, qvars>>
    \/ \E method \in Methods, resource \in Urls(RequestSegments, MaxSegs), handlerThrows \in BOOLEAN :
          OnRequest(method, resource, handlerThrows) /\ UNCHANGED <<tvars, mvars, qvars>>

SpecRouter == Init /\ [][NextRouter]_vars

\* one pattern is compiled, request URLs are matched against it
NextMatch ==
    \/ \E resource \in Urls(PatternSegments, MaxSegs) :
          Compile(resource) /\ UNCHANGED <<tvars, mvars, qvars>>
    \/ \E resource \in Urls(RequestSegments, MaxSegs) :
          Match(resource) /\ UNCHANGED <<tvars, mvars, qvars>>

SpecMatch == Init /\ [][NextMatch]_vars

(* ======================= properties of the write path ================== *)
IsPrefix(a, b) == Len(a) <= Len(b) /\ \A i \in 1..Len(a) : a[i] = b[i]

\* the bytes of write w the socket accepted, in the order it accepted them
AcceptedOf(w) == SelectSeq(sent[writes[w].fd], LAMBDA b : b[1] = w)

\* the payload submitted with write w
PayloadOf(w) == [i \in 1..writes[w].size |-> <<w, i>>]

AllAccepted(w) ==
    \A i \in 1..writes[w].size : \E k \in 1..Len(AcceptedOf(w)) : AcceptedOf(w)[k] = <<w, i>>

Submitted == 1..Len(writes)

\* C1: what the socket accepted of a write is, at every moment, a prefix of the
\* submitted payload: no byte of it is sent twice, skipped or reordered.
C1_ByteIdentical == \A w \in Submitted : IsPrefix(AcceptedOf(w), PayloadOf(w))

\* C2: whenever the resolver of a write has been invoked, every byte of the
\* payload has been accepted by the socket and the value passed is the payload
\* length.
C2_ResolvedMeansAllWritten ==
    \A w \in Submitted :
        writes[w].resolves > 0 => AllAccepted(w) /\ writes[w].value = writes[w].size

\* C3: a write that was parked on a would-block of its first send and whose
\* bytes the socket has since all accepted (on write-ready retries) has been
\* resolved exactly once, has left no entry in toWrite, and its fd is registered
\* for Read without Write.
C3_ParkedWriteResolves ==
    \A w \in Submitted :
        (writes[w].parked /\ AllAccepted(w) /\ writes[w].fd \in DOMAIN peers
            /\ peers[writes[w].fd] = writes[w].peer)
        => /\ writes[w].resolves = 1
           /\ writes[w].rejects = 0
           /\ writes[w].fd \notin DOMAIN toWrite
           /\ Read \in interest[writes[w].fd]
           /\ Write \notin interest[writes[w].fd]

\* C4: of two writes to the same peer, the later one has no byte accepted and
\* is not resolved before the earlier one (unless the earlier one failed) has
\* had all its bytes accepted and was resolved.
C4_SubmissionOrder ==
    \A a \in Submitted, b \in Submitted :
        (a < b /\ writes[a].peer = writes[b].peer /\ writes[a].rejects = 0)
        => /\ Len(AcceptedOf(b)) > 0 => AllAccepted(a)
           /\ writes[b].resolves > 0 => writes[a].resolves > 0

(* ===================== properties of the peer table ==================== *)
DisconnectionOps(p, fd) ==
    <<Op("onDisconnection", p, 0), Op("erase", fd, 0), Op("close", fd, 0)>>

Calls(name, p) == \E i \in 1..Len(lastOps) : lastOps[i].op = name /\ lastOps[i].id = p

\* C9: a remote close runs onDisconnection once, then the erase from peers, then
\* close(fd), in that order; the peer is then out of the peers table, its fd is
\* closed, and onInput is never called for it again.
C9_Disconnection ==
    \A p \in 1..MaxPeers :
        /\ disconnected[p] <= 1
        /\ Calls("onDisconnection", p) =>
              \E fd \in Fds : /\ lastOps = DisconnectionOps(p, fd)
                              /\ fd \notin DOMAIN peers
                              /\ fd \notin DOMAIN interest
        /\ disconnected[p] > 0 => \A fd \in DOMAIN peers : peers[fd] # p
        /\ Calls("onInput", p) => disconnected[p] = 0

\* a peer was disconnected and a later peer on the same descriptor got input
C9_Witness ==
    \E p \in 1..MaxPeers, q \in 1..MaxPeers :
        p # q /\ disconnected[p] = 1 /\ Calls("onInput", q)

(* ========================= properties of timers ======================== *)
TimerReqs == 1..Len(treqs)

\* C5: over any run, each asynchronous operation (a write, a timer, a load
\* request) has had at most one call of its resolve/reject callbacks in all.
C5_OneShot ==
    /\ \A w \in Submitted : writes[w].resolves + writes[w].rejects <= 1
    /\ \A r \in TimerReqs : treqs[r].resolves + treqs[r].rejects <= 1
    /\ \A l \in 1..Len(loads) : loads[l].resolves + loads[l].rejects <= 1

\* the step is an armTimerMs call for a descriptor that has a timers entry
ArmsExisting ==
    /\ Len(treqs') = Len(treqs) + 1
    /\ treqs'[Len(treqs')].fd \in DOMAIN timers

\* C7: arming a timer whose fd has an entry in timers (active or disabled)
\* rejects the new request with "Timer is already armed", does not resolve it,
\* and leaves the timers table, the programmed expiry, the poller registration
\* and the earlier requests unchanged.
C7_ArmingArmedRejects ==
    [][ArmsExisting =>
          LET r == Len(treqs') IN
          /\ treqs'[r].rejects = 1
          /\ treqs'[r].error = "Timer is already armed"
          /\ treqs'[r].resolves = 0
          /\ timers' = timers
          /\ timerfd' = timerfd
          /\ timerReg' = timerReg
          /\ \A q \in TimerReqs : treqs'[q] = treqs[q]]_vars

\* a request was rejected as already armed while the entry was disabled
C7_Witness ==
    \E r \in TimerReqs, fd \in DOMAIN timers :
        /\ treqs[r].error = "Timer is already armed"
        /\ treqs[r].fd = fd
        /\ timers[fd].req # r
        /\ ~timers[fd].active

\* the step is a disarmTimer call on fd
Disarms(fd) == lastOps'[1] = Op("disarmTimer", fd, 0)

\* C8: once a timer has been disarmed none of its callbacks is called again;
\* disarmTimer only clears the active flag of the entry, which stays in the
\* table; disarmTimer on an fd without an entry throws and changes nothing.
C8_DisarmSuppresses ==
    [][/\ \A r \in TimerReqs :
             treqs[r].disarmed =>
                 /\ treqs'[r].resolves = treqs[r].resolves
                 /\ treqs'[r].rejects = treqs[r].rejects
       /\ \A fd \in TimerFds :
             (lastOps' # <<>> /\ Disarms(fd)) =>
                 /\ timerfd' = timerfd
                 /\ timerReg' = timerReg
                 /\ \A r \in TimerReqs :
                       /\ treqs'[r].resolves = treqs[r].resolves
                       /\ treqs'[r].rejects = treqs[r].rejects
                 /\ IF fd \in DOMAIN timers
                    THEN /\ timers' = [timers EXCEPT ![fd].active = FALSE]
                         /\ Len(lastOps') = 1
                    ELSE /\ timers' = timers
                         /\ treqs' = treqs
                         /\ lastOps'[Len(lastOps')].op = "throw"]_vars

\* a disarmed timer has fired: its entry is gone and nothing was called
C8_Witness ==
    \E r \in TimerReqs :
        /\ treqs[r].disarmed
        /\ treqs[r].fd \notin DOMAIN timers
        /\ timerReg[treqs[r].fd] = "fired"
        /\ treqs[r].resolves = 0 /\ treqs[r].rejects = 0

(* ==================== properties of the queues ========================= *)
\* C6: every entry a producer pushed is eventually popped and processed by
\* the reactor.
C6_NoSubmissionLost ==
    \A e \in 1..MaxPush : (pushes >= e) ~> (e \in processed)

\* No wake-up is lost: when the reactor is in the poll, every queue that holds
\* an entry has an unreported readiness edge or a producer about to notify it.
NoLostWakeup ==
    draining = "poll" =>
        /\ writesQueue # <<>> =>
              "writes" \in notified \/ \E t \in Producers : producer[t] = "writes"
        /\ timersQueue # <<>> =>
              "timers" \in notified \/ \E t \in Producers : producer[t] = "timers"
        /\ peersQueue # <<>> =>
              "peers" \in notified \/ \E t \in Producers : producer[t] = "peers"

(* ==================== properties of the router ========================= *)
\* the routes of the request's method that match its resource, by position
MatchingRoutes ==
    {i \in 1..Len(routes[request[1]]) : match(routes[request[1]][i], request[2]).kind = "match"}

\* C10: a request is dispatched to the handler of the first route, in insertion
\* order, of its method that matches, and to no other; when no route of its
\* method matches, no handler is invoked and the response is 404 "Could not
\* find a matching route".
C10_FirstMatchDispatch ==
    request # <<>> =>
        IF MatchingRoutes = {}
        THEN /\ response.invoked = 0
             /\ response.code = 404
             /\ response.body = "Could not find a matching route"
        ELSE \E i \in MatchingRoutes :
                /\ \A j \in MatchingRoutes : i <= j
                /\ response.invoked = routes[request[1]][i].handler
                /\ response.code = 0

(* ==================== properties of Route::match ======================= *)
\* the compiled route Match was called on, and the non-empty segments of the
\* request URL as the text between its slashes
MatchedPattern == routes["GET"][1].fragments_
RequestSegs == SelectSeq(getlines(request[2], <<>>), LAMBDA p : p # <<>>)

\* C11: a request URL with more non-empty segments than the pattern has
\* fragments does not match; a request URL with one segment fewer than the
\* pattern, each segment of which matches the pattern fragment at its index,
\* matches if and only if the last pattern fragment is Optional.
C11_SegmentCount ==
    matched # <<>> =>
        /\ Len(RequestSegs) > Len(MatchedPattern) => matched.kind # "match"
        /\ ( /\ Len(RequestSegs) = Len(MatchedPattern) - 1
             /\ \A i \in 1..Len(RequestSegs) : fragmentMatch(MatchedPattern[i], RequestSegs[i]) )
           => (matched.kind = "match" <=> isOptional(MatchedPattern[Len(MatchedPattern)]))

\* C12: in every compiled route an Optional fragment is the last fragment.
C12_OptionalIsLast ==
    \A method \in Methods : \A r \in 1..Len(routes[method]) :
        LET fragments_ == routes[method][r].fragments_ IN
        \A i \in 1..Len(fragments_) : isOptional(fragments_[i]) => i = Len(fragments_)

\* the pattern fragments that have a request segment at their index
MatchedPrefix ==
    1..(IF Len(RequestSegs) < Len(MatchedPattern) THEN Len(RequestSegs) ELSE Len(MatchedPattern))
ParameterIdx == {i \in MatchedPrefix : isParameter(MatchedPattern[i])}
SplatIdx == {i \in MatchedPrefix : isSplat(MatchedPattern[i])}

\* C13: after a successful match there are as many params as Parameter
\* fragments in the matched prefix and as many splats as Splat fragments in
\* it, and the j-th param is the name of the j-th Parameter fragment paired
\* with the request segment at that fragment's index.
C13_ParamsOfMatch ==
    (matched # <<>> /\ matched.kind = "match") =>
        /\ Len(matched.params) = Cardinality(ParameterIdx)
        /\ Len(matched.splats) = Cardinality(SplatIdx)
        /\ \A i \in ParameterIdx :
              LET j == Cardinality({x \in ParameterIdx : x <= i}) IN
              j <= Len(matched.params) =>
                  matched.params[j] = <<MatchedPattern[i].value_, RequestSegs[i]>>

(* ==================== properties of the dispatch ======================= *)
\* C14: when the handler a request is dispatched to throws, onRequest catches
\* the exception and answers 500; the exception does not leave onRequest.
C14_HandlerExceptionIs500 ==
    (request # <<>> /\ response.handlerThrew) =>
        /\ ~response.threw
        /\ response.code = 500

(* ================= properties of the pending-write table =============== *)
\* the write whose remainder the entry of fd holds
PendingOf(fd) == toWrite[fd].buffer.w

\* C15: every entry of toWrite (one per fd, toWrite being a map) holds exactly
\* the unsent remainder of the write that went pending: it starts after the
\* bytes of that write the socket accepted and ends with the payload.
C15_EntryIsRemainder ==
    reactor = "running" =>
        \A fd \in DOMAIN toWrite :
            LET buffer == toWrite[fd].buffer IN
            /\ buffer.off = Len(AcceptedOf(buffer.w))
            /\ buffer.off + buffer.size = writes[buffer.w].size

\* the step is an async_write call: one more write is on record
SubmitsWrite == Len(writes') = Len(writes) + 1

\* C16: an async_write never returns with its payload and callbacks thrown
\* away: when the call is over the write was resolved or rejected (its error
\* reported), or it is the pending write stored for its fd.
C16_SecondPendingWriteReported ==
    [][SubmitsWrite =>
          LET w == Len(writes') IN
          \/ writes'[w].resolves + writes'[w].rejects > 0
          \/ \E fd \in DOMAIN toWrite' : toWrite'[fd].buffer.w = w
          \/ reactor' = "hung"]_vars

\* C17: between events, every fd with an entry in toWrite is registered with
\* exactly Read|Write, and an fd without an entry (none yet, or its pending
\* write completed) is not registered for Write.
C17_PendingInterest ==
    reactor = "running" =>
        /\ \A fd \in DOMAIN toWrite :
              fd \in DOMAIN interest /\ interest[fd] = {Read, Write}
        /\ \A fd \in DOMAIN interest :
              fd \notin DOMAIN toWrite => Write \notin interest[fd]

\* C18: between events, every fd of the peers table is registered with an
\* interest set that contains Read and Shutdown.
C18_PeerInterest ==
    reactor = "running" =>
        \A fd \in DOMAIN peers :
            fd \in DOMAIN interest /\ {Read, Shutdown} \subseteq interest[fd]

\* C19: an entry of toWrite belongs to the peer that is on its fd now: after
\* a disconnection the fd has no entry, and a peer admitted later on the same
\* fd number finds none.
C19_DisconnectFreesPending ==
    \A fd \in DOMAIN toWrite :
        /\ fd \in DOMAIN peers
        /\ writes[PendingOf(fd)].peer = peers[fd]

(* ==================== properties of thread affinity ==================== *)
\* C20: no thread other than the reactor's reads or writes the peers, toWrite
\* or timers table: an operation called on another thread goes through the
\* queue of its kind.
C20_ThreadAffinity == offThread = {}

(* =================== properties of the timers table ==================== *)
\* the step is the dispatch of a readable event on timer fd
FiresTimer(fd) == lastOps' # <<>> /\ lastOps'[1] = Op("handleTimer", fd, 0)

\* C21: the timers table has one entry per fd (the entry filed under fd is a
\* timer of fd); a readable event on a timer fd removes the entry of that fd
\* in the same step, whether the entry was active or disarmed and whatever the
\* read of the timer fd returned; and the resolver of a request is called in
\* that step only for the entry's request, once, when the entry was active
\* and the read succeeded.
C21_FireRemovesEntry ==
    [][/\ \A fd \in DOMAIN timers : timers[fd].fd = fd
       /\ \A fd \in TimerFds :
             FiresTimer(fd) =>
                 /\ fd \in DOMAIN timers
                 /\ fd \notin DOMAIN timers'
                 /\ \A r \in TimerReqs :
                       treqs'[r].resolves # treqs[r].resolves =>
                           /\ timers[fd].req = r
                           /\ timers[fd].active
                           /\ lastOps' = <<Op("handleTimer", fd, 0), Op("ok", fd, 0)>>
                           /\ treqs'[r].resolves = treqs[r].resolves + 1]_vars

\* the read of an active timer's fd would have blocked: the entry is gone and
\* neither callback of the request was called
C21_Witness ==
    \E fd \in TimerFds, r \in TimerReqs :
        /\ lastOps = <<Op("handleTimer", fd, 0), Op("again", fd, 0)>>
        /\ fd \notin DOMAIN timers
        /\ treqs[r].fd = fd /\ ~treqs[r].disarmed
        /\ treqs[r].resolves = 0 /\ treqs[r].rejects = 0 /\ treqs[r].error = ""

\* C24: a timer in the table was programmed with (0 s, v*1000000 ns) when its
\* duration v is below 1000 ms and with (v div 1000 s, 0 ns) otherwise, and
\* that expiry is not zero (a zero it_value disarms a timerfd: it never fires).
C24_TimerProgramming ==
    \A fd \in DOMAIN timers :
        LET v == timers[fd].value IN
        /\ v < 1000 => timerfd[fd] = [sec |-> 0, nsec |-> v * 1000000]
        /\ v >= 1000 => timerfd[fd] = [sec |-> v \div 1000, nsec |-> 0]
        /\ timerfd[fd] # [sec |-> 0, nsec |-> 0]

(* ==================== properties of handleIncoming ===================== *)
\* the bytes the successful recv calls of a turn returned, in all
RECURSIVE TotalRead(_)
TotalRead(recvs) ==
    IF recvs = <<>> THEN 0
    ELSE (IF Head(recvs).ret > 0 THEN Head(recvs).ret ELSE 0) + TotalRead(Tail(recvs))

\* the onInput calls of the turn on record
InputCalls == SelectSeq(turn.calls, LAMBDA c : c.op = "onInput")

\* C22: in a handleIncoming turn every recv but the last returned bytes and
\* left room in the buffer, and the last one returned would-block, closure or
\* an error, or filled the buffer; onInput is called at most once, exactly
\* when the last recv returned would-block and bytes were read before it, and
\* it is given the bytes read in the turn, in the order of the stream, their
\* number being the sum of the recv results.
C22_ReadLoop ==
    turn # NoTurn =>
        LET n == Len(turn.recvs)
            last == turn.recvs[n]
            total == TotalRead(turn.recvs)
        IN /\ n >= 1
           /\ \A i \in 1..(n - 1) :
                 /\ turn.recvs[i].ret > 0
                 /\ TotalRead(SubSeq(turn.recvs, 1, i)) < MaxBuffer
           /\ last.ret <= 0 \/ total >= MaxBuffer
           /\ Len(InputCalls) <= 1
           /\ Len(InputCalls) = 1 <=> (last = Recv(-1, "EAGAIN") /\ total > 0)
           /\ \A k \in 1..Len(InputCalls) :
                 InputCalls[k].data = [i \in 1..total |-> turn.from + i]

\* onInput was given the bytes of two reads, the stream not at its start
C22_Witness ==
    /\ turn # NoTurn
    /\ Len(turn.recvs) = 3
    /\ turn.from > 0
    /\ Len(InputCalls) = 1
    /\ Len(InputCalls[1].data) = 2

\* the "Too long packet" diagnostics of the turn on record
Diagnostics == SelectSeq(turn.calls, LAMBDA c : c.op = "Too long packet")

\* C23: a turn never reads more than MaxBuffer bytes; it emits the diagnostic
\* exactly when it read MaxBuffer bytes, and then the read that filled the
\* buffer is its last recv and nothing else is called; a turn starts at the
\* first byte of the stream no earlier turn read and leaves the stream after
\* the last byte it read, so what an overflowing turn did not read is read
\* by the next turn of that fd.
C23_OverflowBoundary ==
    [][turn' # NoTurn =>
          LET t == turn'
              total == TotalRead(t.recvs)
          IN /\ total <= MaxBuffer
             /\ Len(Diagnostics') = 1 <=> total = MaxBuffer
             /\ total = MaxBuffer =>
                   /\ t.recvs[Len(t.recvs)].ret > 0
                   /\ Len(t.calls) = 1
             /\ t.from = recvd[t.fd]
             /\ recvd'[t.fd] = t.from + total]_vars

\* a turn filled the buffer exactly with its second read, bytes of the
\* stream being left for a later turn
C23_Witness ==
    /\ turn # NoTurn
    /\ Len(turn.recvs) = 2
    /\ TotalRead(turn.recvs) = MaxBuffer
    /\ Len(Diagnostics) = 1
    /\ recvd[turn.fd] < MaxRecv

(* ================== termination of the write path ====================== *)
\* C25: every call of asyncWriteImpl returns: the reactor is never inside a
\* write loop that does not end.
C25_WriteLoopTerminates == reactor # "hung"

(* ==================== totality of Route::match ========================= *)
\* the request segments, taken as text, against the fragments of the pattern
LiteralMatch ==
    /\ Len(RequestSegs) <= Len(MatchedPattern)
    /\ \A i \in 1..Len(MatchedPattern) :
          IF i <= Len(RequestSegs)
          THEN fragmentMatch(MatchedPattern[i], RequestSegs[i])
          ELSE isOptional(MatchedPattern[i])

\* C26: Route::match on a compiled route returns a match or a no-match for
\* every request URL, never an error, and it is a match exactly when the
\* request segments, compared as text, fit the pattern.
C26_MatchIsTotal ==
    matched # <<>> =>
        /\ matched.kind \in {"match", "unmatch"}
        /\ matched.kind = "match" <=> LiteralMatch

====
